---- MODULE Spec2Model ----
(***************************************************************************)
(* Model of the Stopwatch of src/main.rs: one timer object with the        *)
(* operations start, stop, lap, get_lap and get_lap_count on top of a      *)
(* monotonic clock.                                                        *)
(*                                                                         *)
(* Time.  The monotonic clock is the variable now, the number of clock     *)
(* ticks between Instant::now() in new() and the present.  Instant only    *)
(* promises never to go backward, so two successive reads may see the      *)
(* same tick: operations read now, and the action Tick lets time pass.     *)
(*                                                                         *)
(* Floating point.  f64 values are modelled by a binary floating-point     *)
(* format of MantBits significant bits, scaled down from the 53 of f64.    *)
(* A value x is represented by the integer x * Unit, Unit = 2^FracBits,    *)
(* and every arithmetic operation rounds its exact result to the nearest   *)
(* representable value, ties to even, as IEEE 754 does.  A second has      *)
(* TicksPerSec ticks (1.0e9 in the source), which is not a power of two,   *)
(* so that the fractional part of a timepoint is rounded.                  *)
(***************************************************************************)
EXTENDS Integers, Sequences, FiniteSets, TLC

\* ---------------------------------------------------------------- bounds
MaxTick == 8       \* the clock is observed for ticks 0..MaxTick
MaxLaps == 2       \* cap on the length of the laps vector
MaxIndex == 3      \* get_lap is called with index in 0..MaxIndex
MaxCalls == 2      \* calls since construction are counted up to MaxCalls
MaxRun == 4        \* length of the start/stop sequence the caller follows
TicksPerSec == 5   \* clock ticks per second (scaled down from 1.0e9)
MantBits == 4      \* significant bits of the float format (53 in f64)
FracBits == 6      \* the smallest positive float is 2^(-FracBits)

\* ------------------------------------------------------- float arithmetic
RECURSIVE Pow2(_)
Pow2(n) == IF n = 0 THEN 1 ELSE 2 * Pow2(n - 1)

\* the integer that represents 1.0
Unit == Pow2(FracBits)

\* spacing of the representable values around n >= 0
RECURSIVE UlpFrom(_, _)
UlpFrom(n, q) == IF n < q * Pow2(MantBits) THEN q ELSE UlpFrom(n, 2 * q)

Ulp(n) == UlpFrom(n, 1)

\* num/den >= 0 rounded to the nearest representable value, ties to even
RoundRat(num, den) ==
  LET q   == Ulp(num \div den)
      lo  == (num \div (den * q)) * q
      rem == 2 * (num - lo * den)
  IN  IF rem < q * den THEN lo
      ELSE IF rem > q * den THEN lo + q
      ELSE IF (lo \div q) % 2 = 0 THEN lo ELSE lo + q

Round(n) == IF n >= 0 THEN RoundRat(n, 1) ELSE 0 - RoundRat(0 - n, 1)

\* integer as f64
F64FromInt(k) == Round(k * Unit)

fadd(a, b) == Round(a + b)

fsub(a, b) == Round(a - b)

fdiv(a, b) == RoundRat(a * Unit, b)

\* the -1.0 every rejected operation returns
Rejected == 0 - Unit

\* the value new() gives to the field end
EndInit == 3 * Unit

VARIABLES now, interval_start, lap_start, end, elapsed, laps, op, ncalls, arg, ret,
          accepted, run, period

vars == <<now, interval_start, lap_start, end, elapsed, laps, op, ncalls, arg, ret,
          accepted, run, period>>

\* seconds between start_point and the clock tick t, as f64
get_timepoint(t) ==
  LET secs  == F64FromInt(t \div TicksPerSec)
      nsecs == fdiv(F64FromInt(t % TicksPerSec), F64FromInt(TicksPerSec))
  IN  fadd(secs, nsecs)

\* Stopwatch::new
Init ==
  /\ now = 0
  /\ interval_start = 0
  /\ lap_start = 0
  /\ end = EndInit
  /\ elapsed = 0
  /\ laps = <<>>
  /\ op = "new"
  /\ ncalls = 0
  /\ arg = 0
  /\ ret = 0
  /\ accepted = 0
  /\ run = <<>>
  /\ period = <<>>

\* time passes between two calls (sleep, or the caller's own work)
Tick ==
  /\ now < MaxTick
  /\ now' = now + 1
  /\ UNCHANGED <<interval_start, lap_start, end, elapsed, laps, op, ncalls, arg, ret,
                 accepted, run, period>>

\* the caller's record of the call just made:
\*   op, arg   the method called and its argument
\*   ncalls    the number of calls since new(), counted up to MaxCalls
\*   accepted  the number of stop() and lap() calls that did not return -1.0
\*   run       the timepoints read by the calls since new(), as long as these
\*             calls are start(), stop(), start(), stop(), ... (the sequence
\*             of test_start_stop_delay_twice) and at most MaxRun; else <<>>
\*   period    <<t0, n0, e0>> from the last start() that did not return -1.0
\*             until the next stop(): the timepoint it returned, and the
\*             number of laps and the elapsed total at that moment; else <<>>
Called(name, index) ==
  /\ op' = name
  /\ ncalls' = IF ncalls < MaxCalls THEN ncalls + 1 ELSE ncalls
  /\ arg' = index
  /\ accepted' = IF name \in {"stop", "lap"} /\ ret' # Rejected
                   THEN accepted + 1 ELSE accepted
  /\ run' = IF /\ ncalls = 0 \/ run # <<>>
               /\ Len(run) < MaxRun
               /\ name = (IF Len(run) % 2 = 0 THEN "start" ELSE "stop")
              THEN Append(run, get_timepoint(now)) ELSE <<>>
  /\ period' = IF name = "start" /\ ret' # Rejected
                 THEN <<ret', Len(laps), elapsed>>
                 ELSE IF name = "stop" THEN <<>> ELSE period

\* start as its doc comment describes it: a start on a running stopwatch
\* closes the interval and opens a new one
start_mutC1 ==
  LET tp == get_timepoint(now)
      interval == fsub(tp, interval_start)
  IN
  /\ end' = tp
  /\ interval_start' = tp
  /\ ret' = tp
  /\ elapsed' = IF interval_start # 0 THEN fadd(elapsed, interval) ELSE elapsed
  /\ Called("start", 0)
  /\ UNCHANGED <<now, lap_start, laps>>

\* start that on a running stopwatch opens a new interval before it
\* returns -1.0
start_mutC17 ==
  LET tp == get_timepoint(now) IN
  /\ end' = tp
  /\ interval_start' = tp
  /\ ret' = IF interval_start # 0 THEN Rejected ELSE tp
  /\ Called("start", 0)
  /\ UNCHANGED <<now, lap_start, elapsed, laps>>

start ==
  LET tp == get_timepoint(now) IN
  /\ end' = tp
  /\ IF interval_start # 0
       THEN /\ ret' = Rejected
            /\ UNCHANGED interval_start
       ELSE /\ interval_start' = tp
            /\ ret' = tp
  /\ Called("start", 0)
  /\ UNCHANGED <<now, lap_start, elapsed, laps>>

\* stop without the check for an idle stopwatch
stop_mutC2 ==
  LET tp == get_timepoint(now)
      interval == fsub(tp, interval_start)
  IN
  /\ Len(laps) < MaxLaps
  /\ end' = tp
  /\ elapsed' = fadd(elapsed, interval)
  /\ laps' = Append(laps, interval)
  /\ interval_start' = 0
  /\ lap_start' = 0
  /\ ret' = elapsed'
  /\ Called("stop", 0)
  /\ UNCHANGED now

\* stop returning the interval it completed, as lap does
stop_mutC7 ==
  LET tp == get_timepoint(now)
      interval == fsub(tp, interval_start)
  IN
  /\ interval_start # 0 => Len(laps) < MaxLaps
  /\ end' = tp
  /\ IF interval_start = 0
       THEN /\ ret' = Rejected
            /\ UNCHANGED <<interval_start, lap_start, elapsed, laps>>
       ELSE /\ elapsed' = fadd(elapsed, interval)
            /\ laps' = Append(laps, interval)
            /\ interval_start' = 0
            /\ lap_start' = 0
            /\ ret' = interval
  /\ Called("stop", 0)
  /\ UNCHANGED now

\* stop with the operands of the subtraction exchanged
stop_mutC9 ==
  LET tp == get_timepoint(now)
      interval == fsub(interval_start, tp)
  IN
  /\ interval_start # 0 => Len(laps) < MaxLaps
  /\ end' = tp
  /\ IF interval_start = 0
       THEN /\ ret' = Rejected
            /\ UNCHANGED <<interval_start, lap_start, elapsed, laps>>
       ELSE /\ elapsed' = fadd(elapsed, interval)
            /\ laps' = Append(laps, interval)
            /\ interval_start' = 0
            /\ lap_start' = 0
            /\ ret' = elapsed'
  /\ Called("stop", 0)
  /\ UNCHANGED now

\* stop that puts the interval in front of the recorded laps
stop_mutC14 ==
  LET tp == get_timepoint(now)
      interval == fsub(tp, interval_start)
  IN
  /\ interval_start # 0 => Len(laps) < MaxLaps
  /\ end' = tp
  /\ IF interval_start = 0
       THEN /\ ret' = Rejected
            /\ UNCHANGED <<interval_start, lap_start, elapsed, laps>>
       ELSE /\ elapsed' = fadd(elapsed, interval)
            /\ laps' = <<interval>> \o laps
            /\ interval_start' = 0
            /\ lap_start' = 0
            /\ ret' = elapsed'
  /\ Called("stop", 0)
  /\ UNCHANGED now

\* stop that records the lap without adding it to elapsed
stop_mutC15 ==
  LET tp == get_timepoint(now)
      interval == fsub(tp, interval_start)
  IN
  /\ interval_start # 0 => Len(laps) < MaxLaps
  /\ end' = tp
  /\ IF interval_start = 0
       THEN /\ ret' = Rejected
            /\ UNCHANGED <<interval_start, lap_start, elapsed, laps>>
       ELSE /\ elapsed' = elapsed
            /\ laps' = Append(laps, interval)
            /\ interval_start' = 0
            /\ lap_start' = 0
            /\ ret' = elapsed'
  /\ Called("stop", 0)
  /\ UNCHANGED now

\* stop that writes the field end only once the call is accepted
stop_mutC18 ==
  LET tp == get_timepoint(now)
      interval == fsub(tp, interval_start)
  IN
  /\ interval_start # 0 => Len(laps) < MaxLaps
  /\ IF interval_start = 0
       THEN /\ ret' = Rejected
            /\ UNCHANGED <<interval_start, lap_start, elapsed, laps, end>>
       ELSE /\ end' = tp
            /\ elapsed' = fadd(elapsed, interval)
            /\ laps' = Append(laps, interval)
            /\ interval_start' = 0
            /\ lap_start' = 0
            /\ ret' = elapsed'
  /\ Called("stop", 0)
  /\ UNCHANGED now

stop ==
  LET tp == get_timepoint(now)
      interval == fsub(tp, interval_start)
  IN
  /\ interval_start # 0 => Len(laps) < MaxLaps
  /\ end' = tp
  /\ IF interval_start = 0
       THEN /\ ret' = Rejected
            /\ UNCHANGED <<interval_start, lap_start, elapsed, laps>>
       ELSE /\ elapsed' = fadd(elapsed, interval)
            /\ laps' = Append(laps, interval)
            /\ interval_start' = 0
            /\ lap_start' = 0
            /\ ret' = elapsed'
  /\ Called("stop", 0)
  /\ UNCHANGED now

\* lap that does not re-arm interval_start
lap_mutC6 ==
  LET tp == get_timepoint(now)
      interval == fsub(tp, interval_start)
  IN
  /\ interval_start # 0 => Len(laps) < MaxLaps
  /\ end' = tp
  /\ IF interval_start = 0
       THEN /\ ret' = Rejected
            /\ UNCHANGED <<interval_start, elapsed, laps>>
       ELSE /\ elapsed' = fadd(elapsed, interval)
            /\ laps' = Append(laps, interval)
            /\ UNCHANGED interval_start
            /\ ret' = interval
  /\ Called("lap", 0)
  /\ UNCHANGED <<now, lap_start>>

\* lap that does not record the interval it completed
lap_mutC12 ==
  LET tp == get_timepoint(now)
      interval == fsub(tp, interval_start)
  IN
  /\ interval_start # 0 => Len(laps) < MaxLaps
  /\ end' = tp
  /\ IF interval_start = 0
       THEN /\ ret' = Rejected
            /\ UNCHANGED <<interval_start, elapsed, laps>>
       ELSE /\ elapsed' = fadd(elapsed, interval)
            /\ UNCHANGED laps
            /\ interval_start' = tp
            /\ ret' = interval
  /\ Called("lap", 0)
  /\ UNCHANGED <<now, lap_start>>

\* lap that keeps in elapsed the time of the last lap only
lap_mutC13 ==
  LET tp == get_timepoint(now)
      interval == fsub(tp, interval_start)
  IN
  /\ interval_start # 0 => Len(laps) < MaxLaps
  /\ end' = tp
  /\ IF interval_start = 0
       THEN /\ ret' = Rejected
            /\ UNCHANGED <<interval_start, elapsed, laps>>
       ELSE /\ elapsed' = interval
            /\ laps' = Append(laps, interval)
            /\ interval_start' = tp
            /\ ret' = interval
  /\ Called("lap", 0)
  /\ UNCHANGED <<now, lap_start>>

lap ==
  LET tp == get_timepoint(now)
      interval == fsub(tp, interval_start)
  IN
  /\ interval_start # 0 => Len(laps) < MaxLaps
  /\ end' = tp
  /\ IF interval_start = 0
       THEN /\ ret' = Rejected
            /\ UNCHANGED <<interval_start, elapsed, laps>>
       ELSE /\ elapsed' = fadd(elapsed, interval)
            /\ laps' = Append(laps, interval)
            /\ interval_start' = tp
            /\ ret' = interval
  /\ Called("lap", 0)
  /\ UNCHANGED <<now, lap_start>>

\* get_lap answering 0.0 for an index out of range
get_lap_mutC8(index) ==
  /\ ret' = IF index < Len(laps) THEN laps[index + 1] ELSE 0
  /\ Called("get_lap", index)
  /\ UNCHANGED <<now, interval_start, lap_start, end, elapsed, laps>>

get_lap(index) ==
  /\ ret' = IF index < Len(laps) THEN laps[index + 1] ELSE Rejected
  /\ Called("get_lap", index)
  /\ UNCHANGED <<now, interval_start, lap_start, end, elapsed, laps>>

get_lap_count ==
  /\ ret' = Len(laps)
  /\ Called("get_lap_count", 0)
  /\ UNCHANGED <<now, interval_start, lap_start, end, elapsed, laps>>

Next ==
  \/ Tick
  \/ start
  \/ stop
  \/ lap
  \/ \E index \in 0..MaxIndex : get_lap(index)
  \/ get_lap_count

Spec == Init /\ [][Next]_vars

TypeOK ==
  /\ now \in 0..MaxTick
  /\ Len(laps) <= MaxLaps
  /\ op \in {"new", "start", "stop", "lap", "get_lap", "get_lap_count"}
\* ------------------------------------------------------------ properties
\* a step that is a call of the operation name (Tick alone moves the clock)
CallOf(name) == op' = name /\ now' = now

C2_StopLapWhileIdleRejected ==
  [][((CallOf("stop") \/ CallOf("lap")) /\ interval_start = 0) =>
       /\ ret' = Rejected
       /\ elapsed' = elapsed
       /\ laps' = laps
       /\ interval_start' = 0]_vars

\* the first call on a fresh stopwatch was a stop, and it was rejected
C2_Witness ==
  /\ op = "stop"
  /\ ncalls = 1
  /\ ret = Rejected
  /\ interval_start = 0
  /\ elapsed = 0
  /\ laps = <<>>

Idle == interval_start = 0

Running == interval_start # 0

\* C3: the stopwatch starts Idle; start() takes Idle to Running, stop()
\* takes Running to Idle, lap() keeps Running, and every other call is a
\* rejected no-op returning -1.0.
C3_StateMachine ==
  /\ Idle
  /\ [][/\ (CallOf("start") /\ Idle) => Running'
        /\ (CallOf("stop") /\ Running) => Idle'
        /\ (CallOf("lap") /\ Running) => Running'
        /\ (\/ CallOf("start") /\ Running
            \/ (CallOf("stop") \/ CallOf("lap")) /\ Idle)
             => /\ ret' = Rejected
                /\ UNCHANGED <<interval_start, elapsed, laps>>]_vars

\* C4: a start() on an idle stopwatch records the current timepoint into
\* interval_start and returns that timepoint, which is strictly positive.
C4_StartRecordsPositiveTimepoint ==
  [][(CallOf("start") /\ interval_start = 0) =>
       /\ interval_start' = get_timepoint(now)
       /\ ret' = interval_start'
       /\ ret' > 0]_vars

\* C5: a stop() on a running stopwatch adds interval = timepoint -
\* interval_start to elapsed, appends that one value to laps and resets
\* interval_start to 0.0; so on a fresh stopwatch start(), the clock
\* advancing from the timepoint start() returned by T, stop() gives
\* elapsed = T.
C5_StopAccumulates ==
  [][/\ (CallOf("stop") /\ interval_start # 0) =>
          LET interval == fsub(get_timepoint(now), interval_start) IN
          /\ elapsed' = fadd(elapsed, interval)
          /\ laps' = Append(laps, interval)
          /\ interval_start' = 0
     /\ (CallOf("stop") /\ op = "start" /\ ncalls = 1) =>
          elapsed' = fsub(get_timepoint(now), ret)]_vars

\* C6: a lap() on a running stopwatch adds interval = timepoint -
\* interval_start to elapsed, appends it to laps and re-arms interval_start
\* to the timepoint, so that the stopwatch keeps running.
C6_LapAccumulatesAndRearms ==
  [][(CallOf("lap") /\ interval_start # 0) =>
       LET tp == get_timepoint(now)
           interval == fsub(tp, interval_start)
       IN
       /\ elapsed' = fadd(elapsed, interval)
       /\ laps' = Append(laps, interval)
       /\ interval_start' = tp
       /\ Running']_vars

\* a lap has been accepted after time passed, and the stopwatch still runs
C6_Witness ==
  /\ op = "lap"
  /\ ret > 0
  /\ laps # <<>>
  /\ ret = laps[Len(laps)]
  /\ interval_start = end
  /\ Running

\* the laps added from left to right as f64, starting from 0.0
RECURSIVE SumLaps(_)
SumLaps(ls) ==
  IF ls = <<>> THEN 0
  ELSE fadd(SumLaps(SubSeq(ls, 1, Len(ls) - 1)), ls[Len(ls)])

\* C7: an accepted lap() returns the duration of the interval it completed,
\* the value it appended to laps; an accepted stop() returns the cumulative
\* elapsed total of all completed intervals, the last one included.
C7_ReturnContract ==
  [][/\ (CallOf("lap") /\ interval_start # 0) =>
          /\ ret' = fsub(get_timepoint(now), interval_start)
          /\ Len(laps') = Len(laps) + 1
          /\ ret' = laps'[Len(laps')]
     /\ (CallOf("stop") /\ interval_start # 0) =>
          /\ ret' = elapsed'
          /\ ret' = fadd(elapsed, fsub(get_timepoint(now), interval_start))
          /\ ret' = SumLaps(laps')]_vars

\* a stop has returned a total that differs from the interval it completed
C7_Witness ==
  /\ op = "stop"
  /\ Len(laps) = 2
  /\ laps[1] > 0
  /\ ret = elapsed
  /\ ret # laps[2]

\* C8: get_lap(index) returns laps[index] when index is below the number of
\* recorded laps and -1.0 otherwise, also right after construction, and it
\* changes nothing of the stopwatch.
C8_GetLap ==
  /\ [][CallOf("get_lap") =>
          /\ ret' = IF arg' < Len(laps) THEN laps[arg' + 1] ELSE Rejected
          /\ UNCHANGED <<interval_start, lap_start, end, elapsed, laps>>]_vars
  /\ []((op = "get_lap" /\ ncalls = 1) => ret = Rejected)

\* the second of two different laps has been read back
C8_Witness ==
  /\ op = "get_lap"
  /\ arg = 1
  /\ Len(laps) = 2
  /\ laps[1] # laps[2]
  /\ ret = laps[2]

\* C9: every value an accepted start(), stop() or lap() returns and every
\* lap an in-range get_lap() returns is non-negative, so that -1.0 is
\* returned exactly when the call was rejected.
C9_SentinelUnambiguous ==
  /\ [][/\ CallOf("start") =>
             /\ ret' = Rejected <=> interval_start # 0
             /\ interval_start = 0 => ret' >= 0
        /\ (CallOf("stop") \/ CallOf("lap")) =>
             /\ ret' = Rejected <=> interval_start = 0
             /\ interval_start # 0 => ret' >= 0
        /\ CallOf("get_lap") =>
             /\ ret' = Rejected <=> arg' >= Len(laps)
             /\ arg' < Len(laps) => ret' >= 0]_vars
  /\ [](elapsed >= 0 /\ \A i \in 1..Len(laps) : laps[i] >= 0)

\* an accepted stop has returned a positive total of two intervals
C9_Witness ==
  /\ op = "stop"
  /\ Len(laps) = 2
  /\ ret > 0
  /\ ret # Rejected
  /\ Idle

\* C10: on a fresh stopwatch start() followed at once by stop() returns an
\* elapsed value above 0.0, and get_lap_count() is then 1.
C10_BasicRoundTrip ==
  [][(CallOf("stop") /\ op = "start" /\ ncalls = 1) =>
       /\ ret' > 0
       /\ Len(laps') = 1]_vars
\* C11: only running intervals accumulate: on a fresh stopwatch start at t1,
\* stop at t2, start at t3, stop at t4 gives elapsed = (t2 - t1) + (t4 - t3),
\* whatever time passes between the stop at t2 and the start at t3.
C11_TwoIntervalsAccumulate ==
  [][(CallOf("stop") /\ Len(run) = 3) =>
       elapsed' = fadd(fsub(run[2], run[1]),
                       fsub(get_timepoint(now), run[3]))]_vars

C13_ElapsedNonDecreasing ==
  [][elapsed' >= elapsed]_vars

\* elapsed has grown twice
C13_Witness ==
  /\ Len(laps) = 2
  /\ laps[1] > 0
  /\ laps[2] > 0
  /\ elapsed > laps[1]
  /\ elapsed > laps[2]

\* C14: laps is append-only: across any operation the old sequence is a
\* prefix of the new one, which is longer by at most one element.
C14_LapsAppendOnly ==
  [][/\ Len(laps') \in {Len(laps), Len(laps) + 1}
     /\ SubSeq(laps', 1, Len(laps)) = laps]_vars

\* a second, shorter lap has been appended behind the first
C14_Witness ==
  /\ op = "lap"
  /\ Len(laps) = 2
  /\ laps[1] > laps[2]
  /\ laps[2] > 0

\* C15: elapsed equals the sum of all recorded laps (added in order, in
\* f64, as the code and test_lap add them).
C15_ElapsedIsSumOfLaps ==
  elapsed = SumLaps(laps)

\* two laps whose f64 sum is rounded have been recorded
C15_Witness ==
  /\ Len(laps) = 2
  /\ laps[1] > 0
  /\ laps[2] > 0
  /\ elapsed = fadd(laps[1], laps[2])
  /\ elapsed # laps[1] + laps[2]

\* C16: there is no terminal state: from any Idle state a start() is
\* accepted and leads to a state where stop() is accepted, and from any
\* Running state stop() is accepted.
C16_NoTerminalState ==
  [][/\ (CallOf("start") /\ Idle) => (ret' # Rejected /\ Running')
     /\ (CallOf("stop") /\ Running) => (ret' # Rejected /\ Idle')]_vars

C19_NoTimeLostAtLapBoundaries ==
  [][(CallOf("stop") /\ period # <<>>) =>
       LET tn == get_timepoint(now)
           t0 == period[1]
           n0 == period[2]
           e0 == period[3]
       IN
       /\ SumLaps(SubSeq(laps', n0 + 1, Len(laps'))) = fsub(tn, t0)
       /\ fsub(elapsed', e0) = fsub(tn, t0)]_vars
====
